---- MODULE Spec2Model ----
(***************************************************************************)
(* The Milan recursive-descent parser and code generator (src/parser.cpp,  *)
(* src/parser.hpp) as a state machine.  The C++ call stack is the variable *)
(* `stack`: one frame per active procedure, the frame's pc naming the      *)
(* point the procedure resumes at when its callee returns.  One action is  *)
(* the code of a procedure between two calls.                              *)
(***************************************************************************)
EXTENDS Integers, Sequences, FiniteSets, TLC

VARIABLES
  input,        \* the token sequence the scanner delivers (end-of-input after it)
  pos,          \* scanner: index of the current token in input
  lastToken_,   \* Parser::lastToken_
  error_,       \* Parser::error_
  variables_,   \* Parser::variables_ : name -> [first: address, second: isFloat]
  lastVar_,     \* Parser::lastVar_
  isFloatCast,  \* Parser::isFloatCast
  code,         \* the emitter's instruction sequence (address a is code[a+1])
  reserved,     \* addresses handed out by CodeGen::reserve, in order
  patched,      \* addresses overwritten by CodeGen::emitAt, in order
  flushed,      \* number of CodeGen::flush calls
  stack         \* the call stack of the parser's procedures

vars == <<input, pos, lastToken_, error_, variables_, lastVar_, isFloatCast,
          code, reserved, patched, flushed, stack>>

\* Bounds of the explored inputs.
MaxDepth == 2
MaxExtra == 2

(***************************************************************************)
(* Tokens.  s carries the string-like attribute (identifier name, which    *)
(* arithmetic or comparison operator), n the numeric attribute (the value  *)
(* of an integer literal; the value of a float literal in tenths).         *)
(***************************************************************************)
Tok(t, s, n) == [t |-> t, s |-> s, n |-> n]
Kw(t) == Tok(t, "", 0)
Id(name) == Tok("T_IDENTIFIER", name, 0)
Num(n) == Tok("T_NUMBER", "", n)
RNum(tenths) == Tok("T_RNUMBER", "", tenths)
AddOp(a) == Tok("T_ADDOP", a, 0)
MulOp(a) == Tok("T_MULOP", a, 0)
CmpOp(c) == Tok("T_CMP", c, 0)

\* static_cast<float>(int) and static_cast<int>(float) on the tenths encoding.
IntToFloat(n) == n * 10
FloatToInt(f) == IF f >= 0 THEN f \div 10 ELSE -((-f) \div 10)

(***************************************************************************)
(* Scanner (its interface as the parser uses it).                          *)
(***************************************************************************)
TokenAt(p) == IF p >= 1 /\ p <= Len(input) THEN input[p] ELSE Kw("T_EOF")

\* The attribute register of kind-set K: set when a token of that kind is
\* scanned, kept otherwise.
RECURSIVE LastOf(_, _)
LastOf(K, p) ==
  IF p < 1 THEN Kw("T_EOF")
  ELSE IF TokenAt(p).t \in K THEN TokenAt(p)
  ELSE LastOf(K, p - 1)

token(s) == TokenAt(s.pos).t
getStringValue(s) == LastOf({"T_IDENTIFIER"}, s.pos).s
getIntValue(s) == LastOf({"T_NUMBER"}, s.pos).n
getFloatValue(s) == LastOf({"T_RNUMBER"}, s.pos).n
getArithmeticValue(s) == LastOf({"T_ADDOP", "T_MULOP"}, s.pos).s
getCmpValue(s) == LastOf({"T_CMP"}, s.pos).s
nextToken(s) == [s EXCEPT !.pos = IF s.pos > Len(input) THEN s.pos ELSE s.pos + 1]

(***************************************************************************)
(* The parser's data as one record, so that the statements of a procedure  *)
(* compose as function applications.                                       *)
(***************************************************************************)
St == [pos |-> pos, lastToken_ |-> lastToken_, error_ |-> error_,
       variables_ |-> variables_, lastVar_ |-> lastVar_,
       isFloatCast |-> isFloatCast, code |-> code,
       reserved |-> reserved, patched |-> patched]

Commit(s, newStack) ==
  /\ pos' = s.pos
  /\ lastToken_' = s.lastToken_
  /\ error_' = s.error_
  /\ variables_' = s.variables_
  /\ lastVar_' = s.lastVar_
  /\ isFloatCast' = s.isFloatCast
  /\ code' = s.code
  /\ reserved' = s.reserved
  /\ patched' = s.patched
  /\ stack' = newStack
  /\ UNCHANGED <<input, flushed>>

see(s, t) == token(s) = t
match(s, t) == IF see(s, t) THEN nextToken(s) ELSE s
next(s) == [nextToken(s) EXCEPT !.lastToken_ = token(s)]
reportError(s) == [s EXCEPT !.error_ = TRUE]

RECURSIVE recover(_, _)
recover(s, t) ==
  IF ~see(s, t) /\ ~see(s, "T_EOF") THEN recover(next(s), t)
  ELSE IF see(s, t) THEN next(s)
  ELSE s

mustBe(s, t) ==
  IF see(s, t) THEN match(s, t)
  ELSE recover(reportError([s EXCEPT !.error_ = TRUE]), t)

(***************************************************************************)
(* Code emitter (its interface as the parser uses it).                     *)
(***************************************************************************)
Instr(op, arg, float) == [op |-> op, arg |-> arg, float |-> float]
getCurrentAddress(s) == Len(s.code)
emit(s, op) == [s EXCEPT !.code = Append(@, Instr(op, 0, FALSE))]
emitArg(s, op, arg) == [s EXCEPT !.code = Append(@, Instr(op, arg, FALSE))]
emitFloat(s, op, arg) == [s EXCEPT !.code = Append(@, Instr(op, arg, TRUE))]
reserve(s) == [s EXCEPT !.code = Append(@, Instr("NOP", 0, FALSE)),
                        !.reserved = Append(@, Len(s.code))]
emitAt(s, addr, op, arg) ==
  [s EXCEPT !.code = IF addr >= 0 /\ addr < Len(s.code)
                     THEN [@ EXCEPT ![addr + 1] = Instr(op, arg, FALSE)]
                     ELSE @,
            !.patched = Append(@, addr)]

(***************************************************************************)
(* Symbol table.                                                           *)
(***************************************************************************)
\* addVariable returns lastVar_.first++ : the value before the increment.
addVariableResult(s) == s.lastVar_.first

addVariable(s, var, isFloat) ==
  IF var \notin DOMAIN s.variables_
  THEN LET lv == [first |-> s.lastVar_.first, second |-> isFloat]
       IN [s EXCEPT !.variables_ = (var :> lv) @@ @,
                    !.lastVar_ = [lv EXCEPT !.first = @ + 1]]
  ELSE [reportError(s) EXCEPT !.lastVar_.first = @ + 1]

\* findVariable reports the error and then flows off its end without a
\* return statement (undefined behaviour): the caller either receives an
\* indeterminate int or the process ends abnormally.
Indeterminate == {0, 7}
findVariableResults(s, var) ==
  IF var \in DOMAIN s.variables_ THEN {s.variables_[var].first}
  ELSE Indeterminate
findVariable(s, var) ==
  IF var \in DOMAIN s.variables_ THEN s ELSE reportError(s)

(***************************************************************************)
(* Call stack.                                                             *)
(***************************************************************************)
Frame(pc) == [pc |-> pc, varAddress |-> 0, jumpNoAddress |-> 0,
              jumpAddress |-> 0, conditionAddress |-> 0, op |-> ""]
Top == stack[Len(stack)]
At(pc) == stack # <<>> /\ Top.pc = pc
Return == SubSeq(stack, 1, Len(stack) - 1)
Call(resume, callee) == Append(Append(Return, resume), Frame(callee))
Crash == <<Frame("aborted")>>
Done == stack = <<>>
Aborted == stack = Crash

(***************************************************************************)
(* Parser::parse, Parser::program, Parser::statementList                   *)
(***************************************************************************)
parse ==
  /\ At("parse")
  /\ Commit(St, Call([Top EXCEPT !.pc = "parse_ret"], "program"))

\* parse() flushing whether or not an error was recorded
parse_ret_flush_always ==
  /\ At("parse_ret")
  /\ flushed' = flushed + 1
  /\ stack' = Return
  /\ UNCHANGED <<input, pos, lastToken_, error_, variables_, lastVar_,
                 isFloatCast, code, reserved, patched>>

parse_ret ==
  /\ At("parse_ret")
  /\ flushed' = IF ~error_ THEN flushed + 1 ELSE flushed
  /\ stack' = Return
  /\ UNCHANGED <<input, pos, lastToken_, error_, variables_, lastVar_,
                 isFloatCast, code, reserved, patched>>

program ==
  /\ At("program")
  /\ Commit(mustBe(St, "T_BEGIN"),
            Call([Top EXCEPT !.pc = "program_end"], "statementList"))

program_end ==
  /\ At("program_end")
  /\ Commit(emit(mustBe(St, "T_END"), "STOP"), Return)

statementList ==
  /\ At("statementList")
  /\ IF see(St, "T_END") \/ see(St, "T_OD") \/ see(St, "T_ELSE") \/ see(St, "T_FI")
     THEN Commit(St, Return)
     ELSE Commit(St, Call([Top EXCEPT !.pc = "statementList_more"], "statement"))

statementList_more ==
  /\ At("statementList_more")
  /\ IF see(St, "T_SEMICOLON")
     THEN Commit(match(St, "T_SEMICOLON"), Call(Top, "statement"))
     ELSE Commit(St, Return)

(***************************************************************************)
(* Parser::statement                                                       *)
(***************************************************************************)
\* int ID = expression / float ID = expression, up to the call of expression
statement_declare(isFloat) ==
  LET s1 == match(St, IF isFloat THEN "T_FLOAT" ELSE "T_INT")
      s2 == mustBe(s1, "T_IDENTIFIER")
      s3 == addVariable(s2, getStringValue(s2), isFloat)
      s4 == mustBe(s3, "T_ASSIGN")
  IN Commit(s4, Call([Top EXCEPT !.pc = "statement_store",
                                 !.varAddress = addVariableResult(s2)],
                     "expression"))

\* ID = expression, up to the call of expression
statement_assign ==
  LET s1 == match(St, "T_IDENTIFIER")
      var == getStringValue(s1)
      s2 == findVariable(s1, var)
  IN \/ \E varAddress \in findVariableResults(s1, var) :
          Commit(mustBe(s2, "T_ASSIGN"),
                 Call([Top EXCEPT !.pc = "statement_store",
                                  !.varAddress = varAddress],
                      "expression"))
     \/ /\ var \notin DOMAIN s1.variables_
        /\ Commit(s2, Crash)

statement ==
  /\ At("statement")
  /\ IF see(St, "T_INT") THEN statement_declare(FALSE)
     ELSE IF see(St, "T_FLOAT") THEN statement_declare(TRUE)
     ELSE IF see(St, "T_IDENTIFIER") THEN statement_assign
     ELSE IF see(St, "T_IF")
       THEN Commit(match(St, "T_IF"),
                   Call([Top EXCEPT !.pc = "statement_if_cond"], "relation"))
     ELSE IF see(St, "T_WHILE")
       THEN LET s1 == match(St, "T_WHILE")
            IN Commit(s1, Call([Top EXCEPT !.pc = "statement_while_cond",
                                           !.conditionAddress = getCurrentAddress(s1)],
                               "relation"))
     ELSE IF see(St, "T_WRITE")
       THEN Commit(mustBe(match(St, "T_WRITE"), "T_LPAREN"),
                   Call([Top EXCEPT !.pc = "statement_write_end"], "expression"))
     ELSE Commit(reportError(St), Return)

statement_store ==
  /\ At("statement_store")
  /\ Commit(emitArg(St, "STORE", Top.varAddress), Return)

statement_if_cond ==
  /\ At("statement_if_cond")
  /\ LET s1 == reserve(St)
     IN Commit(mustBe(s1, "T_THEN"),
               Call([Top EXCEPT !.pc = "statement_if_then",
                                !.jumpNoAddress = getCurrentAddress(St)],
                    "statementList"))

\* the if without else leaving its JUMP_NO placeholder unpatched
statement_if_then_skip_patch ==
  /\ At("statement_if_then")
  /\ IF see(St, "T_ELSE")
     THEN LET s1 == match(St, "T_ELSE")
              s2 == reserve(s1)
              s3 == emitAt(s2, Top.jumpNoAddress, "JUMP_NO", getCurrentAddress(s2))
          IN Commit(s3, Call([Top EXCEPT !.pc = "statement_if_else",
                                         !.jumpAddress = getCurrentAddress(s1)],
                             "statementList"))
     ELSE Commit(mustBe(St, "T_FI"), Return)

\* the if with else patching its JUMP_NO before reserving the JUMP slot
statement_if_then_patch_first ==
  /\ At("statement_if_then")
  /\ IF see(St, "T_ELSE")
     THEN LET s1 == match(St, "T_ELSE")
              s2 == emitAt(s1, Top.jumpNoAddress, "JUMP_NO", getCurrentAddress(s1))
              s3 == reserve(s2)
          IN Commit(s3, Call([Top EXCEPT !.pc = "statement_if_else",
                                         !.jumpAddress = getCurrentAddress(s1)],
                             "statementList"))
     ELSE LET s1 == emitAt(St, Top.jumpNoAddress, "JUMP_NO", getCurrentAddress(St))
          IN Commit(mustBe(s1, "T_FI"), Return)

statement_if_then ==
  /\ At("statement_if_then")
  /\ IF see(St, "T_ELSE")
     THEN LET s1 == match(St, "T_ELSE")
              s2 == reserve(s1)
              s3 == emitAt(s2, Top.jumpNoAddress, "JUMP_NO", getCurrentAddress(s2))
          IN Commit(s3, Call([Top EXCEPT !.pc = "statement_if_else",
                                         !.jumpAddress = getCurrentAddress(s1)],
                             "statementList"))
     ELSE LET s1 == emitAt(St, Top.jumpNoAddress, "JUMP_NO", getCurrentAddress(St))
          IN Commit(mustBe(s1, "T_FI"), Return)

statement_if_else ==
  /\ At("statement_if_else")
  /\ LET s1 == emitAt(St, Top.jumpAddress, "JUMP", getCurrentAddress(St))
     IN Commit(mustBe(s1, "T_FI"), Return)

statement_while_cond ==
  /\ At("statement_while_cond")
  /\ LET s1 == reserve(St)
     IN Commit(mustBe(s1, "T_DO"),
               Call([Top EXCEPT !.pc = "statement_while_body",
                                !.jumpNoAddress = getCurrentAddress(St)],
                    "statementList"))

\* the while patching its JUMP_NO before emitting the backward JUMP
statement_while_body_patch_first ==
  /\ At("statement_while_body")
  /\ LET s1 == mustBe(St, "T_OD")
         s2 == emitAt(s1, Top.jumpNoAddress, "JUMP_NO", getCurrentAddress(s1))
         s3 == emitArg(s2, "JUMP", Top.conditionAddress)
     IN Commit(s3, Return)

statement_while_body ==
  /\ At("statement_while_body")
  /\ LET s1 == mustBe(St, "T_OD")
         s2 == emitArg(s1, "JUMP", Top.conditionAddress)
         s3 == emitAt(s2, Top.jumpNoAddress, "JUMP_NO", getCurrentAddress(s2))
     IN Commit(s3, Return)

statement_write_end ==
  /\ At("statement_write_end")
  /\ Commit(emit(mustBe(St, "T_RPAREN"), "PRINT"), Return)

(***************************************************************************)
(* Parser::expression, Parser::term                                        *)
(***************************************************************************)
expression ==
  /\ At("expression")
  /\ Commit(St, Call([Top EXCEPT !.pc = "expression_loop"], "term"))

\* the test of while (see(T_ADDOP)) and, when it holds, the body up to term()
expression_while(s) ==
  IF see(s, "T_ADDOP")
  THEN Commit(next(s), Call([Top EXCEPT !.pc = "expression_op",
                                        !.op = getArithmeticValue(s)], "term"))
  ELSE Commit(s, Return)

expression_loop ==
  /\ At("expression_loop")
  /\ expression_while(St)

expression_op ==
  /\ At("expression_op")
  /\ expression_while(emit(St, IF Top.op = "A_PLUS" THEN "ADD" ELSE "SUB"))

term ==
  /\ At("term")
  /\ Commit(St, Call([Top EXCEPT !.pc = "term_loop"], "factor"))

term_while(s) ==
  IF see(s, "T_MULOP")
  THEN Commit(next(s), Call([Top EXCEPT !.pc = "term_op",
                                        !.op = getArithmeticValue(s)], "factor"))
  ELSE Commit(s, Return)

term_loop ==
  /\ At("term_loop")
  /\ term_while(St)

term_op ==
  /\ At("term_op")
  /\ term_while(emit(St, IF Top.op = "A_MULTIPLY" THEN "MULT" ELSE "DIV"))

(***************************************************************************)
(* Parser::factor                                                          *)
(***************************************************************************)
seeOperator(s) == see(s, "T_ADDOP") \/ see(s, "T_MULOP") \/ see(s, "T_CMP")
anyIntCast(s) == \E i \in 1..Len(s.isFloatCast) : ~s.isFloatCast[i]
eraseCasts(s) == [s EXCEPT !.isFloatCast = <<>>]

\* the branch if (see(T_NUMBER))
factor_number(s) ==
  LET s1 == next(s)
      asFloat == emitFloat(s1, "PUSH", IntToFloat(getIntValue(s1)))
      asInt == emitArg(s1, "PUSH", getIntValue(s1))
  IN eraseCasts(
       IF seeOperator(s1)
       THEN IF s1.isFloatCast # <<>>
            THEN (IF Head(s1.isFloatCast) THEN asFloat ELSE s1)
            ELSE asInt
       ELSE IF s1.lastVar_.second THEN asFloat
       ELSE asInt)

\* the branch else if (see(T_RNUMBER))
factor_rnumber(s) ==
  IF s.lastToken_ \in {"T_MULOP", "T_ADDOP", "T_CMP"}
  THEN next(emitFloat(s, "PUSH", getFloatValue(s)))
  ELSE
    LET s1 == next(s)
        val == FloatToInt(getFloatValue(s1))
        own == emitFloat(s1, "PUSH", getFloatValue(s1))
    IN eraseCasts(
         IF seeOperator(s1)
         THEN IF s1.isFloatCast # <<>>
              THEN IF anyIntCast(s1)
                   THEN IF Head(s1.isFloatCast)
                        THEN emitFloat(s1, "PUSH", IntToFloat(val))
                        ELSE emitArg(s1, "PUSH", val)
                   ELSE s1
              ELSE own
         ELSE IF s1.lastVar_.second
              THEN IF anyIntCast(s1)
                   THEN emitFloat(s1, "PUSH", IntToFloat(val))
                   ELSE own
         ELSE emitArg(s1, "PUSH", val))

\* the branch else if (see(T_IDENTIFIER))
factor_identifier ==
  LET var == getStringValue(St)
      s1 == findVariable(St, var)
  IN \/ \E varAddress \in findVariableResults(St, var) :
          Commit(emitArg(next(s1), "LOAD", varAddress), Return)
     \/ /\ var \notin DOMAIN St.variables_
        /\ Commit(s1, Crash)

\* the branch else if (match(T_LPAREN))
factor_paren ==
  LET s1 == match(St, "T_LPAREN")
  IN IF see(s1, "T_INT") \/ see(s1, "T_FLOAT")
     THEN LET s2 == next(s1)
              s3 == [s2 EXCEPT !.isFloatCast = Append(@, see(s1, "T_FLOAT"))]
          IN Commit(mustBe(s3, "T_RPAREN"),
                    Call([Top EXCEPT !.pc = "factor_cast_end"], "expression"))
     ELSE Commit(eraseCasts(s1),
                 Call([Top EXCEPT !.pc = "factor_paren_end"], "expression"))

factor ==
  /\ At("factor")
  /\ IF see(St, "T_NUMBER") THEN Commit(factor_number(St), Return)
     ELSE IF see(St, "T_RNUMBER") THEN Commit(factor_rnumber(St), Return)
     ELSE IF see(St, "T_IDENTIFIER") THEN factor_identifier
     ELSE IF see(St, "T_ADDOP") /\ getArithmeticValue(St) = "A_MINUS"
       THEN Commit(next(St), Call([Top EXCEPT !.pc = "factor_invert"], "factor"))
     ELSE IF see(St, "T_LPAREN") THEN factor_paren
     ELSE IF see(St, "T_READ") THEN Commit(emit(match(St, "T_READ"), "INPUT"), Return)
     ELSE Commit(reportError(St), Return)

factor_invert ==
  /\ At("factor_invert")
  /\ Commit(emit(St, "INVERT"), Return)

factor_cast_end ==
  /\ At("factor_cast_end")
  /\ Commit(St, Return)

factor_paren_end ==
  /\ At("factor_paren_end")
  /\ Commit(mustBe(St, "T_RPAREN"), Return)

(***************************************************************************)
(* Parser::relation                                                        *)
(***************************************************************************)
CompareCode(cmp) ==
  CASE cmp = "C_EQ" -> 0
    [] cmp = "C_NE" -> 1
    [] cmp = "C_LT" -> 2
    [] cmp = "C_GT" -> 3
    [] cmp = "C_LE" -> 4
    [] cmp = "C_GE" -> 5

relation ==
  /\ At("relation")
  /\ Commit(St, Call([Top EXCEPT !.pc = "relation_cmp"], "expression"))

relation_cmp ==
  /\ At("relation_cmp")
  /\ IF see(St, "T_CMP")
     THEN Commit(next(St), Call([Top EXCEPT !.pc = "relation_emit",
                                            !.op = getCmpValue(St)], "expression"))
     ELSE Commit(reportError(St), Return)

relation_emit ==
  /\ At("relation_emit")
  /\ Commit(emitArg(St, "COMPARE", CompareCode(Top.op)), Return)

(***************************************************************************)
(* Inputs.                                                                 *)
(***************************************************************************)
BEGIN == Kw("T_BEGIN")
END == Kw("T_END")
INT == Kw("T_INT")
FLOAT == Kw("T_FLOAT")
ASSIGN == Kw("T_ASSIGN")
IF_ == Kw("T_IF")
THEN_ == Kw("T_THEN")
ELSE_ == Kw("T_ELSE")
FI == Kw("T_FI")
WHILE == Kw("T_WHILE")
DO == Kw("T_DO")
OD == Kw("T_OD")
WRITE == Kw("T_WRITE")
READ == Kw("T_READ")
LP == Kw("T_LPAREN")
RP == Kw("T_RPAREN")
SEMI == Kw("T_SEMICOLON")
PLUS == AddOp("A_PLUS")
MINUS == AddOp("A_MINUS")
TIMES == MulOp("A_MULTIPLY")
LT == CmpOp("C_LT")
EQ == CmpOp("C_EQ")

\* begin int x = 3; write(x) end
RoundTripProgram ==
  <<BEGIN, INT, Id("x"), ASSIGN, Num(3), SEMI, WRITE, LP, Id("x"), RP, END>>
\* begin int x = 1; while x < 5 do x = x + 1 od; write(x) end
WhileProgram ==
  <<BEGIN, INT, Id("x"), ASSIGN, Num(1), SEMI,
    WHILE, Id("x"), LT, Num(5), DO,
    Id("x"), ASSIGN, Id("x"), PLUS, Num(1), OD, SEMI,
    WRITE, LP, Id("x"), RP, END>>
\* begin if 1 = 2 then write(1) else write(2) fi end
IfElseProgram ==
  <<BEGIN, IF_, Num(1), EQ, Num(2), THEN_, WRITE, LP, Num(1), RP,
    ELSE_, WRITE, LP, Num(2), RP, FI, END>>
\* begin write(1 +) end
SyntaxErrorProgram == <<BEGIN, WRITE, LP, Num(1), PLUS, RP, END>>
\* begin int x = (float) 3; write(x) end
CastProgram ==
  <<BEGIN, INT, Id("x"), ASSIGN, LP, FLOAT, RP, Num(3), SEMI,
    WRITE, LP, Id("x"), RP, END>>
\* begin int x = (int) 3 + 1 end
IntCastProgram ==
  <<BEGIN, INT, Id("x"), ASSIGN, LP, INT, RP, Num(3), PLUS, Num(1), END>>
\* begin int x = 1; int x = 2; float y = 3 end
RedeclareProgram ==
  <<BEGIN, INT, Id("x"), ASSIGN, Num(1), SEMI, INT, Id("x"), ASSIGN, Num(2),
    SEMI, FLOAT, Id("y"), ASSIGN, Num(3), END>>
\* begin float x = (float) - 2.5; x = 3 + 1 end
CastLeakProgram ==
  <<BEGIN, FLOAT, Id("x"), ASSIGN, LP, FLOAT, RP, MINUS, RNum(25), SEMI,
    Id("x"), ASSIGN, Num(3), PLUS, Num(1), END>>
\* begin float f = 1.5; int x = 2; f = 3 end
AssignProgram ==
  <<BEGIN, FLOAT, Id("f"), ASSIGN, RNum(15), SEMI, INT, Id("x"), ASSIGN, Num(2),
    SEMI, Id("f"), ASSIGN, Num(3), END>>

\* write(x) begin end   and the empty input
NoBeginProgram == <<WRITE, LP, Id("x"), RP, BEGIN, END>>
EmptyProgram == <<>>

Examples ==
  {RoundTripProgram, WhileProgram, IfElseProgram, SyntaxErrorProgram, CastProgram,
   IntCastProgram, RedeclareProgram, CastLeakProgram, AssignProgram,
   NoBeginProgram, EmptyProgram}

\* Valid programs with if / if-else / while nested to depth d.
Relation == <<Id("x"), LT, Num(3)>>
RECURSIVE Statements(_)
Statements(d) ==
  IF d = 0 THEN {<<WRITE, LP, Id("x"), RP>>}
  ELSE LET S == Statements(d - 1)
       IN S \cup {<<IF_>> \o Relation \o <<THEN_>> \o a \o <<FI>> : a \in S}
            \cup {<<IF_>> \o Relation \o <<THEN_>> \o a \o <<ELSE_>> \o b \o <<FI>> :
                    a \in S, b \in S}
            \cup {<<WHILE>> \o Relation \o <<DO>> \o a \o <<OD>> : a \in S}
Nested ==
  {<<BEGIN, INT, Id("x"), ASSIGN, Num(1), SEMI>> \o s \o <<END>> :
     s \in Statements(MaxDepth)}

\* Arbitrary token sequences of length <= MaxExtra after a stem.
Alphabet ==
  {END, INT, FLOAT, ASSIGN, IF_, THEN_, ELSE_, FI, WHILE, DO, OD, WRITE, READ,
   LP, RP, SEMI, PLUS, MINUS, TIMES, LT, Id("x"), Num(3), RNum(25)}
RECURSIVE Tails(_)
Tails(n) ==
  IF n = 0 THEN {<<>>}
  ELSE LET T == Tails(n - 1)
       IN T \cup {Append(s, a) : s \in {x \in T : Len(x) = n - 1}, a \in Alphabet}
Stems ==
  {<<BEGIN>>,
   <<BEGIN, FLOAT, Id("x"), ASSIGN>>,
   <<BEGIN, INT, Id("x"), ASSIGN, Num(1), SEMI, IF_>>,
   <<BEGIN, WRITE, LP>>}
Arbitrary == {s \o tl : s \in Stems, tl \in Tails(MaxExtra)}

Programs == Examples \cup Nested \cup Arbitrary

\* Parser::lastToken_ is first assigned from the scanner's token before any
\* token was scanned, so it starts indeterminate.  The parser only ever tests
\* whether it is one of T_MULOP, T_ADDOP, T_CMP: T_ADDOP stands for the values
\* that pass the test and T_ILLEGAL for those that do not.
InitialLastTokens == {"T_ILLEGAL", "T_ADDOP"}

Init ==
  /\ input \in Programs
  /\ pos = 1
  /\ lastToken_ \in InitialLastTokens
  /\ error_ = FALSE
  /\ variables_ = <<>>
  /\ lastVar_ = [first |-> 0, second |-> FALSE]
  /\ isFloatCast = <<>>
  /\ code = <<>>
  /\ reserved = <<>>
  /\ patched = <<>>
  /\ flushed = 0
  /\ stack = <<Frame("parse")>>

Next ==
  \/ parse \/ parse_ret \/ program \/ program_end
  \/ statementList \/ statementList_more
  \/ statement \/ statement_store
  \/ statement_if_cond \/ statement_if_then \/ statement_if_else
  \/ statement_while_cond \/ statement_while_body \/ statement_write_end
  \/ expression \/ expression_loop \/ expression_op
  \/ term \/ term_loop \/ term_op
  \/ factor \/ factor_invert \/ factor_cast_end \/ factor_paren_end
  \/ relation \/ relation_cmp \/ relation_emit

Spec == Init /\ [][Next]_vars

\* The parser is one sequential thread: a step that can be taken is taken.
LiveSpec == Spec /\ WF_vars(Next)

(***************************************************************************)
(* Properties.                                                             *)
(***************************************************************************)
Range(f) == {f[i] : i \in 1..Len(f)}
AddressOf(op) == CHOOSE a \in 0..(Len(code) - 1) : code[a + 1].op = op
InstrAt(a) == code[a + 1]
\* factor() is about to handle a numeric literal
AtLiteral == At("factor") /\ TokenAt(pos).t \in {"T_NUMBER", "T_RNUMBER"}
IsOperator(t) == t \in {"T_ADDOP", "T_MULOP", "T_CMP"}
Pushed == Len(code') = Len(code) + 1 /\ code'[Len(code')].op = "PUSH"

\* C1: the error flag is never cleared, and flush is called at most once, as
\* the last step of the pass, and only when no error was recorded: a pass that
\* recorded an error produces no instruction output.
C1_FlushOnlyWithoutError ==
  [][/\ error_ => error_'
     /\ flushed' # flushed =>
          flushed = 0 /\ flushed' = 1 /\ ~error_' /\ stack' = <<>>]_vars

C1_Witness == Done /\ error_ /\ flushed = 0 /\ code # <<>>

\* C2: emitAt is only applied to addresses returned by reserve, to each at
\* most once, and when the program is flushed every reserved address has been
\* patched exactly once and holds a jump.
C2_ReservedPatchedOnce ==
  /\ \A i \in 1..Len(patched) : patched[i] \in Range(reserved)
  /\ \A i, j \in 1..Len(patched) : i # j => patched[i] # patched[j]
  /\ flushed > 0 =>
       /\ Len(patched) = Len(reserved)
       /\ Range(patched) = Range(reserved)
       /\ \A a \in Range(reserved) : InstrAt(a).op \in {"JUMP", "JUMP_NO"}

C2_Witness ==
  /\ flushed = 1
  /\ Len(reserved) >= 4
  /\ \E a \in Range(reserved) : InstrAt(a).op = "JUMP"
  /\ \E i \in 1..Len(code) : code[i].op = "JUMP" /\ code[i].arg < i

\* C3: the names of the symbol table are bound to the addresses 0, 1, ...
\* without gaps or reuse, also after a redeclaration.
C3_AddressesDense ==
  /\ {variables_[v].first : v \in DOMAIN variables_}
       = 0..(Cardinality(DOMAIN variables_) - 1)
  /\ \A v, w \in DOMAIN variables_ :
       variables_[v].first = variables_[w].first => v = w

\* C4: a numeric literal pushed while a cast is pending is pushed in the
\* representation the outermost pending cast names.
C4_CastDecidesLiteral ==
  [][AtLiteral /\ isFloatCast # <<>> /\ Pushed =>
       code'[Len(code')].float = Head(isFloatCast)]_vars

\* C5: the coercion context is empty after factor() has handled a numeric
\* literal, and no cast is pending when a statement starts.
C5_CastsDrained ==
  [][/\ AtLiteral => isFloatCast' = <<>>
     /\ At("statement") => isFloatCast = <<>>]_vars

\* C6 as stated: in the code of WhileProgram the trailing JUMP targets the
\* first instruction of the condition and the JUMP_NO targets the address
\* right after the PRINT of write(x).
C6_JumpNoAfterPrint ==
  Done /\ input = WhileProgram =>
    /\ InstrAt(AddressOf("JUMP")).arg = 2
    /\ InstrAt(2).op = "LOAD"
    /\ InstrAt(AddressOf("JUMP_NO")).arg = AddressOf("PRINT") + 1

\* C6 amended: in the code of WhileProgram the trailing JUMP targets the
\* first instruction of the condition and the JUMP_NO targets the address
\* right after the trailing JUMP, which holds the first instruction (LOAD)
\* of write(x).
C6_JumpNoAfterLoop ==
  Done /\ input = WhileProgram =>
    /\ InstrAt(AddressOf("JUMP")).arg = 2
    /\ InstrAt(2).op = "LOAD"
    /\ InstrAt(1).op = "STORE"
    /\ InstrAt(AddressOf("JUMP_NO")).arg = AddressOf("JUMP") + 1
    /\ InstrAt(AddressOf("JUMP") + 1).op = "LOAD"
    /\ AddressOf("PRINT") = AddressOf("JUMP") + 2

C6_Witness ==
  Done /\ input = WhileProgram /\ flushed = 1 /\ Len(reserved) = 1

\* C7: an if with else patches its JUMP_NO to the address right after the
\* reserved JUMP slot (where the else branch starts) and its JUMP to the
\* address right after the else body; an if without else patches its JUMP_NO
\* to the address right after the then body.  In the code of IfElseProgram
\* the JUMP_NO targets the first instruction of write(2) and the JUMP the
\* address right after its PRINT.
C7_IfJumpTargets ==
  [][/\ At("statement_if_then") /\ TokenAt(pos).t = "T_ELSE" =>
          /\ Len(code') = Len(code) + 1
          /\ code'[Len(code')].op = "NOP"
          /\ stack'[Len(stack)].jumpAddress = Len(code)
          /\ code'[Top.jumpNoAddress + 1] = Instr("JUMP_NO", Len(code) + 1, FALSE)
     /\ At("statement_if_then") /\ TokenAt(pos).t # "T_ELSE" =>
          /\ Len(code') = Len(code)
          /\ code'[Top.jumpNoAddress + 1] = Instr("JUMP_NO", Len(code), FALSE)
     /\ At("statement_if_else") =>
          /\ Len(code') = Len(code)
          /\ code'[Top.jumpAddress + 1] = Instr("JUMP", Len(code), FALSE)
     /\ stack' = <<>> /\ input = IfElseProgram =>
          /\ code'[4] = Instr("JUMP_NO", 7, FALSE)
          /\ code'[8] = Instr("PUSH", 2, FALSE)
          /\ code'[7] = Instr("JUMP", 9, FALSE)
          /\ code'[9].op = "PRINT"
          /\ Len(code') = 10]_vars

C7_Witness ==
  Done /\ input = IfElseProgram /\ flushed = 1 /\ Len(patched) = 2

\* C8: a numeric literal that is the whole right-hand side of an assignment
\* or declaration (no cast pending, no operator before or after it) is pushed
\* in the representation of the declared type of the variable being assigned.
AssignedIsFloat(f) ==
  \E v \in DOMAIN variables_ :
    variables_[v].first = f.varAddress /\ variables_[v].second
C8_AssignedVariableDecides ==
  [][/\ AtLiteral
     /\ ~error_
     /\ isFloatCast = <<>>
     /\ ~IsOperator(TokenAt(pos + 1).t)
     /\ ~IsOperator(lastToken_)
     /\ Len(stack) >= 4
     /\ stack[Len(stack) - 3].pc = "statement_store"
     => Pushed /\ code'[Len(code')].float = AssignedIsFloat(stack[Len(stack) - 3])]_vars

\* C9: the pass never aborts on an error.
C9_PassNeverAborts == error_ => ~Aborted

\* The pass always comes to an end.
Terminates == <>(Done \/ Aborted)

\* C10: factor() emits exactly one PUSH for every numeric literal.
C10_LiteralPushesOnce == [][AtLiteral => Pushed]_vars

====
